---- MODULE Spec2Model ----
(***************************************************************************)
(* piphub/cli.py: the two launchers main_bash and main_powershell.         *)
(* One invocation of one entry point on one host: locate the packaged      *)
(* script, write it to a temporary file, run the interpreter on it, delete *)
(* the file, map the outcome to the process exit status.                   *)
(*                                                                         *)
(* Text is a sequence of code points, a file is a sequence of bytes, a     *)
(* message is a sequence of words.  The file system, the locale, the       *)
(* presence of the interpreter and the child's exit code are the           *)
(* environment: they are chosen in Init or by \E at the step that meets    *)
(* them.                                                                   *)
(***************************************************************************)
EXTENDS Integers, Sequences, FiniteSets, TLC

\* ------------------------------------------------------------------ bounds

\* Longest packaged script text, in code points.
MaxLen == 2

\* Code points the packaged scripts are drawn from: LF, CR, 'A' (ASCII),
\* e-acute (Latin-1, two bytes in UTF-8), euro sign (three bytes in UTF-8).
Chars == {10, 13, 65, 233, 8364}

\* The locale's preferred encoding, which open() uses when none is given.
Locales == {"utf-8", "iso8859-1", "ascii"}

\* platform.system() values.
Systems == {"Windows", "Linux"}

\* Exit codes the interpreter child may return to subprocess.run: success,
\* ordinary failures, the largest status, and (POSIX) death by signal 9.
ChildCodes(system) == {0, 1, 3, 255} \cup (IF system = "Windows" THEN {} ELSE {-9})

\* ------------------------------------------------------------------ text and bytes

Texts == UNION {[1..n -> Chars] : n \in 0..MaxLen}

Fail == [ok |-> FALSE, val |-> <<>>]
Ok(v) == [ok |-> TRUE, val |-> v]

\* codecs: one code point to bytes, strict error handling.
EncodeChar(enc, cp) ==
    IF enc = "utf-8" THEN
        IF cp < 128 THEN Ok(<<cp>>)
        ELSE IF cp < 2048 THEN Ok(<<192 + (cp \div 64), 128 + (cp % 64)>>)
        ELSE Ok(<<224 + (cp \div 4096), 128 + ((cp \div 64) % 64), 128 + (cp % 64)>>)
    ELSE IF enc = "iso8859-1" THEN
        IF cp < 256 THEN Ok(<<cp>>) ELSE Fail
    ELSE \* ascii
        IF cp < 128 THEN Ok(<<cp>>) ELSE Fail

RECURSIVE Encode(_, _)
Encode(enc, text) ==
    IF text = <<>> THEN Ok(<<>>)
    ELSE LET h == EncodeChar(enc, Head(text))
             t == Encode(enc, Tail(text))
         IN  IF h.ok /\ t.ok THEN Ok(h.val \o t.val) ELSE Fail

IsCont(b) == b >= 128 /\ b < 192

RECURSIVE DecodeUTF8(_)
DecodeUTF8(bytes) ==
    IF bytes = <<>> THEN Ok(<<>>)
    ELSE LET b1 == bytes[1]
             n  == IF b1 < 128 THEN 1
                   ELSE IF b1 >= 194 /\ b1 < 224 THEN 2
                   ELSE IF b1 >= 224 /\ b1 < 240 THEN 3
                   ELSE 0
         IN  IF n = 0 \/ Len(bytes) < n THEN Fail
             ELSE IF \E i \in 2..n : ~IsCont(bytes[i]) THEN Fail
             ELSE LET cp == IF n = 1 THEN b1
                            ELSE IF n = 2 THEN (b1 - 192) * 64 + (bytes[2] - 128)
                            ELSE (b1 - 224) * 4096 + (bytes[2] - 128) * 64 + (bytes[3] - 128)
                      rest == DecodeUTF8(SubSeq(bytes, n + 1, Len(bytes)))
                  IN  IF n = 3 /\ (cp < 2048 \/ (cp >= 55296 /\ cp < 57344)) THEN Fail
                      ELSE IF rest.ok THEN Ok(<<cp>> \o rest.val) ELSE Fail

\* Text-mode reading, newline=None: "\r\n" and a lone "\r" both become "\n".
RECURSIVE UniversalNewlines(_)
UniversalNewlines(text) ==
    IF text = <<>> THEN <<>>
    ELSE IF Head(text) = 13 THEN
        IF Len(text) >= 2 /\ text[2] = 10
        THEN <<10>> \o UniversalNewlines(SubSeq(text, 3, Len(text)))
        ELSE <<10>> \o UniversalNewlines(Tail(text))
    ELSE <<Head(text)>> \o UniversalNewlines(Tail(text))

\* Text-mode writing, newline=None: "\n" becomes os.linesep.
RECURSIVE TranslateNewlines(_, _)
TranslateNewlines(system, text) ==
    IF text = <<>> THEN <<>>
    ELSE (IF Head(text) = 10 /\ system = "Windows" THEN <<13, 10>> ELSE <<Head(text)>>)
         \o TranslateNewlines(system, Tail(text))

\* Path.read_text(encoding='utf-8') of a file holding `bytes`.
ReadTextUTF8(bytes) ==
    LET d == DecodeUTF8(bytes)
    IN  IF d.ok THEN Ok(UniversalNewlines(d.val)) ELSE Fail

\* f.write(text) on a text file opened with mode 'w' and encoding enc.
TextWrite(system, enc, text) == Encode(enc, TranslateNewlines(system, text))

\* ------------------------------------------------------------------ state

VARIABLES
    entry,          \* "bash" (main_bash) or "ps" (main_powershell)
    system,         \* platform.system()
    localeEnc,      \* the locale's preferred encoding
    pkgExists,      \* script_path.exists()
    pkgBytes,       \* the bytes of the packaged script
    interpFound,    \* the interpreter binary of this entry and host is on PATH
    pc,             \* position in the entry function
    script_content, \* local of the entry function
    tmp,            \* the temporary script file
    temp_script,    \* local of the entry function: the file's path ("" while unbound)
    launches,       \* argv of every subprocess.run call, in order
    child,          \* "none", "running", "exited"
    returncode,     \* the child's exit code once it has exited
    exc,            \* the exception in flight
    stderr,         \* messages printed to sys.stderr, in order
    exited,         \* the launcher process has terminated
    exitStatus,     \* its exit status, once exited
    unlinkLog       \* outcome of every os.unlink(temp_script) call, in order

vars == <<entry, system, localeEnc, pkgExists, pkgBytes, interpFound, pc,
          script_content, tmp, temp_script, launches, child, returncode, exc,
          stderr, exited, exitStatus, unlinkLog>>

env == <<entry, system, localeEnc, pkgExists, pkgBytes, interpFound>>

NoFile == [exists |-> FALSE, open |-> FALSE, enc |-> "", buf |-> <<>>,
           bytes |-> <<>>, mode |-> 0]

NoExc == [type |-> "None", returncode |-> 0, msg |-> <<>>]
Exc(type, msg) == [type |-> type, returncode |-> 0, msg |-> msg]
SystemExit(code) == [type |-> "SystemExit", returncode |-> code, msg |-> <<>>]
CalledProcessError(code) ==
    [type |-> "CalledProcessError", returncode |-> code, msg |-> <<>>]

ScriptName(e) == IF e = "bash" THEN "piphub.bash" ELSE "piphub.ps1"
Suffix(e) == IF e = "bash" THEN ".bash" ELSE ".ps1"
TempName(suffix) == "/tmp/tmpk3x9" \o suffix

\* Valid UTF-8 packaged scripts, and one that is not UTF-8 (e-acute in Latin-1).
PackagedFiles == {Encode("utf-8", t).val : t \in Texts} \cup {<<233>>}

Init ==
    /\ entry \in {"bash", "ps"}
    /\ system \in Systems
    /\ localeEnc \in Locales
    /\ pkgExists \in BOOLEAN
    /\ pkgBytes \in (IF pkgExists THEN PackagedFiles ELSE {<<>>})
    /\ interpFound \in BOOLEAN
    /\ pc = "locate"
    /\ script_content = <<>>
    /\ tmp = NoFile
    /\ temp_script = ""
    /\ launches = <<>>
    /\ child = "none"
    /\ returncode = 0
    /\ exc = NoExc
    /\ stderr = <<>>
    /\ exited = FALSE
    /\ exitStatus = 0
    /\ unlinkLog = <<>>

\* ------------------------------------------------------------------ get_script_content

\* Variant: the existence check is missing and an absent script reads as empty.
get_script_content_NoCheck(script_name) ==
    /\ pc = "locate"
    /\ LET r == ReadTextUTF8(pkgBytes)
       IN  IF r.ok
           THEN /\ script_content' = r.val
                /\ pc' = "create"
                /\ UNCHANGED exc
           ELSE /\ exc' = Exc("UnicodeDecodeError",
                              <<"'utf-8'", "codec", "can't", "decode", "byte">>)
                /\ pc' = "except"
                /\ UNCHANGED script_content
    /\ UNCHANGED <<env, tmp, temp_script, launches, child, returncode, stderr,
                   exited, exitStatus, unlinkLog>>

\* get_script_content(script_name), called first in the outer try.
get_script_content(script_name) ==
    /\ pc = "locate"
    /\ IF ~pkgExists
       THEN /\ exc' = Exc("FileNotFoundError",
                          <<"Script", script_name, "not", "found", "at",
                            "piphub/scripts/" \o script_name>>)
            /\ pc' = "except"
            /\ UNCHANGED script_content
       ELSE LET r == ReadTextUTF8(pkgBytes)
            IN  IF r.ok
                THEN /\ script_content' = r.val
                     /\ pc' = "create"
                     /\ UNCHANGED exc
                ELSE /\ exc' = Exc("UnicodeDecodeError",
                                   <<"'utf-8'", "codec", "can't", "decode", "byte">>)
                     /\ pc' = "except"
                     /\ UNCHANGED script_content
    /\ UNCHANGED <<env, tmp, temp_script, launches, child, returncode, stderr,
                   exited, exitStatus, unlinkLog>>

\* ------------------------------------------------------------------ the temporary file

\* tempfile.NamedTemporaryFile(mode='w', suffix=suffix, delete=False, encoding=enc):
\* the file is created empty, owner read/write (0o600), or the call raises OSError.
NamedTemporaryFile(enc) ==
    /\ pc = "create"
    /\ \E ok \in BOOLEAN :
         IF ok
         THEN /\ tmp' = [exists |-> TRUE, open |-> TRUE, enc |-> enc, buf |-> <<>>,
                         bytes |-> <<>>, mode |-> 384]
              /\ pc' = "write"
              /\ UNCHANGED exc
         ELSE /\ exc' = Exc("OSError", <<"[Errno 28]", "No", "space", "left", "on", "device">>)
              /\ pc' = "except"
              /\ UNCHANGED tmp
    /\ UNCHANGED <<env, script_content, temp_script, launches, child, returncode,
                   stderr, exited, exitStatus, unlinkLog>>

\* f.write(script_content): the text is encoded into the file object's buffer.
\* A character the encoding lacks raises UnicodeEncodeError; the with statement
\* then closes the file (delete=False keeps it on disk) and the error leaves
\* the outer try.
WriteScript ==
    /\ pc = "write"
    /\ LET w == TextWrite(system, tmp.enc, script_content)
       IN  IF w.ok
           THEN /\ tmp' = [tmp EXCEPT !.buf = w.val]
                /\ pc' = "close"
                /\ UNCHANGED exc
           ELSE /\ tmp' = [tmp EXCEPT !.open = FALSE]
                /\ exc' = Exc("UnicodeEncodeError",
                              <<"'" \o tmp.enc \o "'", "codec", "can't", "encode", "character">>)
                /\ pc' = "except"
    /\ UNCHANGED <<env, script_content, temp_script, launches, child, returncode,
                   stderr, exited, exitStatus, unlinkLog>>

\* Variant: the rest of the function runs inside the with block, so the file is
\* still open and its buffer unflushed when the next step starts.
CloseTemp_StillOpen(suffix, next) ==
    /\ pc = "close"
    /\ temp_script' = TempName(suffix)
    /\ pc' = next
    /\ UNCHANGED <<env, script_content, tmp, launches, child, returncode, exc,
                   stderr, exited, exitStatus, unlinkLog>>

\* temp_script = f.name, then the with statement closes the file: the buffer is
\* flushed to disk.  A failed flush (disk full) leaves a strict prefix of the
\* bytes on disk, the file closed, and raises OSError.
CloseTemp(suffix, next) ==
    /\ pc = "close"
    /\ temp_script' = TempName(suffix)
    /\ \E ok \in BOOLEAN :
         IF ok
         THEN /\ tmp' = [tmp EXCEPT !.bytes = tmp.buf, !.buf = <<>>, !.open = FALSE]
              /\ pc' = next
              /\ UNCHANGED exc
         ELSE /\ tmp.buf # <<>>
              /\ \E k \in 0..(Len(tmp.buf) - 1) :
                   tmp' = [tmp EXCEPT !.bytes = SubSeq(tmp.buf, 1, k), !.buf = <<>>,
                                      !.open = FALSE]
              /\ exc' = Exc("OSError", <<"[Errno 28]", "No", "space", "left", "on", "device">>)
              /\ pc' = "except"
    /\ UNCHANGED <<env, script_content, launches, child, returncode, stderr,
                   exited, exitStatus, unlinkLog>>

\* os.chmod(temp_script, 0o755), first statement of the inner try.
Chmod ==
    /\ pc = "chmod"
    /\ \E ok \in BOOLEAN :
         IF ok
         THEN /\ tmp' = [tmp EXCEPT !.mode = 493]
              /\ pc' = "run"
              /\ UNCHANGED exc
         ELSE /\ exc' = Exc("PermissionError",
                            <<"[Errno 1]", "Operation", "not", "permitted:", temp_script>>)
              /\ pc' = "finally"
              /\ UNCHANGED tmp
    /\ UNCHANGED <<env, script_content, temp_script, launches, child, returncode,
                   stderr, exited, exitStatus, unlinkLog>>

\* ------------------------------------------------------------------ the interpreter

\* Variant: the WSL bridge is left out on Windows.
BashCommand_NoBridge(sys, path) == <<"bash", path>>

\* The command main_bash hands to subprocess.run.
BashCommand(sys, path) ==
    IF sys = "Windows" THEN <<"wsl", "bash", path>> ELSE <<"bash", path>>

\* The command main_powershell hands to subprocess.run.
PowerShellCommand(sys, path) ==
    IF sys = "Windows"
    THEN <<"powershell", "-ExecutionPolicy", "Bypass", "-File", path>>
    ELSE <<"pwsh", "-File", path>>

\* Variant: the guidance names the entry point that has just failed.
WslNotFoundMessage_SameCommand ==
    <<"WSL", "not", "found.", "Please", "install", "WSL", "or", "use",
      "piphub-bash", "instead.">>

WslNotFoundMessage ==
    <<"WSL", "not", "found.", "Please", "install", "WSL", "or", "use",
      "piphub-ps", "instead.">>

PwshNotFoundMessage ==
    <<"PowerShell", "Core", "(pwsh)", "not", "found.", "Please", "install",
      "PowerShell", "Core", "or", "use", "piphub-bash", "instead.">>

\* str() of the FileNotFoundError subprocess.run raises for a missing binary.
LaunchErrorText(argv) ==
    <<"[Errno 2]", "No", "such", "file", "or", "directory:", "'" \o argv[1] \o "'">>

\* Variant: the guidance of the except FileNotFoundError branch goes to
\* standard output instead of standard error.
SubprocessRun_PrintsToStdout(argv, handled, message) ==
    /\ pc = "run"
    /\ launches' = Append(launches, argv)
    /\ IF interpFound
       THEN /\ child' = "running"
            /\ pc' = "wait"
            /\ UNCHANGED <<exc, stderr>>
       ELSE /\ pc' = "finally"
            /\ UNCHANGED <<child, stderr>>
            /\ exc' = IF handled
                      THEN SystemExit(1)
                      ELSE Exc("FileNotFoundError",
                               <<"[Errno 2]", "No", "such", "file", "or", "directory:",
                                 "'" \o argv[1] \o "'">>)
    /\ UNCHANGED <<env, script_content, tmp, temp_script, returncode, exited,
                   exitStatus, unlinkLog>>

\* subprocess.run(argv, cwd=os.getcwd(), check=True) up to the fork: the child
\* starts, or FileNotFoundError is raised.  `handled` says the call sits in a
\* try with `except FileNotFoundError`, which prints `message` and calls
\* sys.exit(1).
SubprocessRun(argv, handled, message) ==
    /\ pc = "run"
    /\ launches' = Append(launches, argv)
    /\ IF interpFound
       THEN /\ child' = "running"
            /\ pc' = "wait"
            /\ UNCHANGED <<exc, stderr>>
       ELSE /\ pc' = "finally"
            /\ UNCHANGED child
            /\ IF handled
               THEN /\ stderr' = Append(stderr, message)
                    /\ exc' = SystemExit(1)
               ELSE /\ exc' = Exc("FileNotFoundError", LaunchErrorText(argv))
                    /\ UNCHANGED stderr
    /\ UNCHANGED <<env, script_content, tmp, temp_script, returncode, exited,
                   exitStatus, unlinkLog>>

\* subprocess.run waits for the child; with check=True a non-zero exit code
\* raises CalledProcessError carrying it.
ChildExit ==
    /\ pc = "wait"
    /\ child = "running"
    /\ \E code \in ChildCodes(system) :
         /\ returncode' = code
         /\ exc' = IF code = 0 THEN NoExc ELSE CalledProcessError(code)
    /\ child' = "exited"
    /\ pc' = "finally"
    /\ UNCHANGED <<env, script_content, tmp, temp_script, launches, stderr,
                   exited, exitStatus, unlinkLog>>

\* ------------------------------------------------------------------ cleanup and exit

\* Variant: the unlink is an ordinary statement after the run, not a finally
\* block, so an exception in flight skips it.
FinallyUnlink_SkippedOnError ==
    /\ pc = "finally"
    /\ IF exc = NoExc
       THEN \E ok \in BOOLEAN :
              /\ unlinkLog' = Append(unlinkLog, ok)
              /\ tmp' = IF ok THEN [tmp EXCEPT !.exists = FALSE] ELSE tmp
       ELSE UNCHANGED <<unlinkLog, tmp>>
    /\ pc' = IF exc = NoExc THEN "return" ELSE "except"
    /\ UNCHANGED <<env, script_content, temp_script, launches, child, returncode,
                   exc, stderr, exited, exitStatus>>

\* Variant: the OSError of a failed unlink is not caught and replaces the
\* exception in flight.
FinallyUnlink_Escalates ==
    /\ pc = "finally"
    /\ \E ok \in BOOLEAN :
         /\ unlinkLog' = Append(unlinkLog, ok)
         /\ tmp' = IF ok THEN [tmp EXCEPT !.exists = FALSE] ELSE tmp
         /\ exc' = IF ok THEN exc
                   ELSE Exc("PermissionError",
                            <<"[Errno 13]", "Permission", "denied:", temp_script>>)
         /\ pc' = IF ok /\ exc = NoExc THEN "return" ELSE "except"
    /\ UNCHANGED <<env, script_content, temp_script, launches, child, returncode,
                   stderr, exited, exitStatus>>

\* finally: try: os.unlink(temp_script) except OSError: pass.
\* The unlink removes the file or fails with OSError, which is dropped; the
\* exception in flight, if any, goes on to the outer handlers.
FinallyUnlink ==
    /\ pc = "finally"
    /\ \E ok \in BOOLEAN :
         /\ unlinkLog' = Append(unlinkLog, ok)
         /\ tmp' = IF ok THEN [tmp EXCEPT !.exists = FALSE] ELSE tmp
    /\ pc' = IF exc = NoExc THEN "return" ELSE "except"
    /\ UNCHANGED <<env, script_content, temp_script, launches, child, returncode,
                   exc, stderr, exited, exitStatus>>

\* The status the operating system reports for sys.exit(n): POSIX keeps the
\* low eight bits.
ExitStatusOf(sys, n) == IF sys = "Windows" THEN n ELSE n % 256

\* Variant: a failed child is reported with the fixed status 1.
ExceptHandlers_FixedStatus ==
    /\ pc = "except"
    /\ IF exc.type = "CalledProcessError"
       THEN /\ exitStatus' = 1
            /\ UNCHANGED stderr
       ELSE IF exc.type = "SystemExit"
       THEN /\ exitStatus' = exc.returncode
            /\ UNCHANGED stderr
       ELSE /\ stderr' = Append(stderr, <<"Error:">> \o exc.msg)
            /\ exitStatus' = 1
    /\ exited' = TRUE
    /\ pc' = "done"
    /\ UNCHANGED <<env, script_content, tmp, temp_script, launches, child,
                   returncode, exc, unlinkLog>>

\* except subprocess.CalledProcessError as e: sys.exit(e.returncode)
\* except Exception as e: print(f"Error: {e}", file=sys.stderr); sys.exit(1)
\* SystemExit is no Exception: it passes both handlers and ends the process.
ExceptHandlers ==
    /\ pc = "except"
    /\ IF exc.type = "CalledProcessError"
       THEN /\ exitStatus' = ExitStatusOf(system, exc.returncode)
            /\ UNCHANGED stderr
       ELSE IF exc.type = "SystemExit"
       THEN /\ exitStatus' = ExitStatusOf(system, exc.returncode)
            /\ UNCHANGED stderr
       ELSE /\ stderr' = Append(stderr, <<"Error:">> \o exc.msg)
            /\ exitStatus' = 1
    /\ exited' = TRUE
    /\ pc' = "done"
    /\ UNCHANGED <<env, script_content, tmp, temp_script, launches, child,
                   returncode, exc, unlinkLog>>

\* The entry function returns None: the process exits with status 0.
ReturnNone ==
    /\ pc = "return"
    /\ exitStatus' = 0
    /\ exited' = TRUE
    /\ pc' = "done"
    /\ UNCHANGED <<env, script_content, tmp, temp_script, launches, child,
                   returncode, exc, stderr, unlinkLog>>

\* ------------------------------------------------------------------ main_bash

MainBash_Locate == entry = "bash" /\ get_script_content("piphub.bash")

\* No encoding argument: the file is written in the locale's encoding.
MainBash_CreateTemp == entry = "bash" /\ NamedTemporaryFile(localeEnc)

MainBash_Write == entry = "bash" /\ WriteScript

MainBash_Close == entry = "bash" /\ CloseTemp(".bash", "chmod")

MainBash_Chmod == entry = "bash" /\ Chmod

\* Only the Windows branch wraps subprocess.run in try/except FileNotFoundError.
MainBash_Run ==
    /\ entry = "bash"
    /\ SubprocessRun(BashCommand(system, temp_script), system = "Windows",
                     WslNotFoundMessage)

MainBash_Wait == entry = "bash" /\ ChildExit

MainBash_Finally == entry = "bash" /\ FinallyUnlink

MainBash_Except == entry = "bash" /\ ExceptHandlers

MainBash_Return == entry = "bash" /\ ReturnNone

\* ------------------------------------------------------------------ main_powershell

MainPowershell_Locate == entry = "ps" /\ get_script_content("piphub.ps1")

MainPowershell_CreateTemp == entry = "ps" /\ NamedTemporaryFile("utf-8")

MainPowershell_Write == entry = "ps" /\ WriteScript

\* No chmod in this variant: the inner try starts with the run.
MainPowershell_Close == entry = "ps" /\ CloseTemp(".ps1", "run")

\* Only the non-Windows branch wraps subprocess.run in try/except FileNotFoundError.
MainPowershell_Run ==
    /\ entry = "ps"
    /\ SubprocessRun(PowerShellCommand(system, temp_script), system # "Windows",
                     PwshNotFoundMessage)

MainPowershell_Wait == entry = "ps" /\ ChildExit

MainPowershell_Finally == entry = "ps" /\ FinallyUnlink

MainPowershell_Except == entry = "ps" /\ ExceptHandlers

MainPowershell_Return == entry = "ps" /\ ReturnNone

\* ------------------------------------------------------------------ specification

Next ==
    \/ MainBash_Locate
    \/ MainBash_CreateTemp
    \/ MainBash_Write
    \/ MainBash_Close
    \/ MainBash_Chmod
    \/ MainBash_Run
    \/ MainBash_Wait
    \/ MainBash_Finally
    \/ MainBash_Except
    \/ MainBash_Return
    \/ MainPowershell_Locate
    \/ MainPowershell_CreateTemp
    \/ MainPowershell_Write
    \/ MainPowershell_Close
    \/ MainPowershell_Run
    \/ MainPowershell_Wait
    \/ MainPowershell_Finally
    \/ MainPowershell_Except
    \/ MainPowershell_Return

Spec == Init /\ [][Next]_vars

TypeOK ==
    /\ pc \in {"locate", "create", "write", "close", "chmod", "run", "wait",
               "finally", "except", "return", "done"}
    /\ child \in {"none", "running", "exited"}
    /\ exited \in BOOLEAN
    /\ exited <=> pc = "done"
    /\ Len(unlinkLog) <= 1

\* ------------------------------------------------------------------ vocabulary of the properties

\* subprocess.run has been called: the runner step was reached.
RunnerReached == launches # <<>>

\* The interpreter binary could not be located when the runner looked for it.
LaunchFailed == RunnerReached /\ ~interpFound

\* The word w occurs in the message.
Names(message, w) == \E i \in DOMAIN message : message[i] = w

\* The console command of the other entry point.
AlternativeCommand(e) == IF e = "bash" THEN "piphub-ps" ELSE "piphub-bash"

\* The entry and host whose run sits in a try/except FileNotFoundError.
GuardedCombination ==
    \/ entry = "bash" /\ system = "Windows"
    \/ entry = "ps" /\ system # "Windows"

\* All of script_content, as the file's own encoding writes it.
FullContent == TextWrite(system, tmp.enc, script_content)

\* ------------------------------------------------------------------ C1

\* C1 (as stated): once the runner step was reached, the temporary file no
\* longer exists on disk when the launcher terminates.
C1_TempFileGoneAtExit ==
    (exited /\ RunnerReached) => ~tmp.exists

\* C1 (amended): once the runner step was reached, the launcher has made
\* exactly one attempt to delete the temporary file before it terminates, and
\* the file no longer exists unless that attempt itself failed.
C1_DeletionAttemptedAtExit ==
    (exited /\ RunnerReached) =>
        /\ Len(unlinkLog) = 1
        /\ (unlinkLog[1] => ~tmp.exists)

C1_Witness ==
    /\ exited
    /\ RunnerReached
    /\ exc.type = "CalledProcessError"
    /\ unlinkLog = <<TRUE>>
    /\ ~tmp.exists

\* ------------------------------------------------------------------ C2

\* C2: if the child was launched and exited with code N, 0 <= N <= 255, the
\* launcher's exit status is N.
C2_ExitCodeMirrorsChild ==
    (exited /\ child = "exited" /\ returncode \in 0..255) => exitStatus = returncode

C2_Witness ==
    /\ exited
    /\ child = "exited"
    /\ returncode = 255
    /\ exitStatus = 255

\* ------------------------------------------------------------------ C3

\* C3: if the interpreter binary cannot be located, the launcher exits with
\* status 1 and has written a non-empty diagnostic to standard error.
C3_MissingInterpreterExitsOne ==
    (exited /\ LaunchFailed) =>
        /\ exitStatus = 1
        /\ stderr # <<>>
        /\ \A i \in DOMAIN stderr : stderr[i] # <<>>

C3_Witness ==
    /\ exited
    /\ LaunchFailed
    /\ entry = "ps"
    /\ system = "Windows"
    /\ exitStatus = 1
    /\ Len(stderr) = 1

\* ------------------------------------------------------------------ C4

\* C4: whenever a temporary file was created, cleanup has run by the time the
\* process terminates, whichever state the error came from.
C4_CleanupRunsIfFileCreated ==
    (exited /\ tmp # NoFile) => unlinkLog # <<>>

\* ------------------------------------------------------------------ C5

C6_OneLaunchPerDecisionTable ==
    /\ Len(launches) <= 1
    /\ RunnerReached =>
         /\ temp_script # ""
         /\ launches[1] =
              IF entry = "bash"
              THEN IF system = "Windows"
                   THEN <<"wsl", "bash", temp_script>>
                   ELSE <<"bash", temp_script>>
              ELSE IF system = "Windows"
                   THEN <<"powershell", "-ExecutionPolicy", "Bypass", "-File", temp_script>>
                   ELSE <<"pwsh", "-File", temp_script>>

C6_Witness ==
    /\ exited
    /\ entry = "bash"
    /\ system = "Windows"
    /\ Len(launches) = 1
    /\ child = "exited"
    /\ returncode = 3

\* ------------------------------------------------------------------ C7

\* C7: if the packaged script is absent, no temporary file is ever created, no
\* command is ever launched, no deletion is attempted, and the launcher exits
\* with status 1 after one diagnostic on standard error.
C7_MissingResourceTouchesNothing ==
    ~pkgExists =>
        /\ tmp = NoFile
        /\ launches = <<>>
        /\ child = "none"
        /\ unlinkLog = <<>>
        /\ exited => (exitStatus = 1 /\ Len(stderr) = 1 /\ stderr[1] # <<>>)

C7_Witness ==
    /\ exited
    /\ ~pkgExists
    /\ exitStatus = 1
    /\ Names(stderr[1], ScriptName(entry))

\* ------------------------------------------------------------------ C8

\* C8: once cleanup has run, the exit status and the diagnostics are fixed by
\* the runner's outcome alone; whether the deletion succeeded plays no part.
C8_DeletionOutcomeNeverMasksResult ==
    (exited /\ unlinkLog # <<>>) =>
        IF child = "exited" /\ returncode = 0
        THEN exitStatus = 0 /\ stderr = <<>>
        ELSE IF child = "exited"
        THEN /\ exitStatus = (IF system = "Windows" THEN returncode ELSE returncode % 256)
             /\ stderr = <<>>
        ELSE IF LaunchFailed
        THEN /\ exitStatus = 1
             /\ stderr = IF GuardedCombination
                         THEN IF entry = "bash"
                              THEN <<WslNotFoundMessage>>
                              ELSE <<PwshNotFoundMessage>>
                         ELSE << <<"Error:">> \o LaunchErrorText(launches[1]) >>
        ELSE /\ exitStatus = 1
             /\ Len(stderr) = 1
             /\ Head(stderr[1]) = "Error:"
             /\ Names(stderr[1], "[Errno 1]")

C8_Witness ==
    /\ exited
    /\ unlinkLog = <<FALSE>>
    /\ tmp.exists
    /\ child = "exited"
    /\ returncode = 3
    /\ exitStatus = 3
    /\ stderr = <<>>

\* ------------------------------------------------------------------ C9

\* C9: once the content has been materialized, reading the temporary file back
\* as UTF-8 yields exactly that content, in either variant and any locale.
C9_RoundTripUTF8 ==
    (pc \in {"chmod", "run", "wait", "finally"} /\ tmp.exists) =>
        ReadTextUTF8(tmp.bytes) = Ok(script_content)

\* ------------------------------------------------------------------ C10

StepRank(p) ==
    CASE p = "locate"  -> 0
      [] p = "create"  -> 1
      [] p = "write"   -> 2
      [] p = "close"   -> 3
      [] p = "chmod"   -> 4
      [] p = "run"     -> 5
      [] p = "wait"    -> 6
      [] p = "finally" -> 7
      [] p = "return"  -> 8
      [] p = "except"  -> 8
      [] p = "done"    -> 9

\* What C10 says of the launch, of the running child and of the exit.
C10_Common ==
    /\ RunnerReached =>
         /\ ~tmp.open
         /\ tmp.buf = <<>>
         /\ unlinkLog = <<>> => (tmp.exists /\ FullContent.ok /\ tmp.bytes = FullContent.val)
    /\ child = "running" =>
         /\ tmp.exists
         /\ ~tmp.open
         /\ tmp.bytes = FullContent.val
         /\ unlinkLog = <<>>
    /\ (exited /\ RunnerReached) => unlinkLog # <<>>

\* C10 (as stated): the steps come in order; the child is launched only after
\* the file is written and closed; the file holds the full content while the
\* child runs; deletion is attempted only after the runner step has concluded
\* (child terminated or launch failed); the launcher does not exit before it.
C10_DeletionOnlyAfterRunner ==
    /\ C10_Common
    /\ unlinkLog # <<>> => (child = "exited" \/ LaunchFailed)

\* C10 (amended): as stated, except that deletion is attempted either after
\* the runner step has concluded or, in the bash variant, after making the
\* file executable has failed, in which case the runner step is skipped.
C10_OrderedLifecycle ==
    /\ [](/\ C10_Common
          /\ unlinkLog # <<>> =>
               \/ child = "exited"
               \/ LaunchFailed
               \/ entry = "bash" /\ ~RunnerReached /\ exc.type = "PermissionError")
    /\ [][StepRank(pc') > StepRank(pc)]_vars

C10_Witness ==
    /\ child = "running"
    /\ tmp.exists
    /\ tmp.bytes = <<195, 169, 10>>
    /\ script_content = <<233, 10>>
    /\ unlinkLog = <<>>

====
